---- MODULE Spec2Model ----
(***************************************************************************)
(* Console-log cleanup scripts: scripts/cleanup_logs.py,                   *)
(* clean_all_emoji_logs.py and clean_emoji_logs.py.                        *)
(*                                                                         *)
(* A text is a sequence of tokens.  A token is one character ("(", ")",    *)
(* ";", "'", " ", "\n", ...) or one word that the scripts only ever test   *)
(* as a whole ("console.log", "import", "DEBUG", ...).  EM is a character  *)
(* of the emoji class of the script that runs.                             *)
(***************************************************************************)
EXTENDS Integers, Sequences, FiniteSets, TLC

VARIABLES
    script,            \* which script runs: "cleanup", "all" or "emoji"
    dry_run,           \* cleanup_logs: the --dry-run flag
    disk,              \* the file's text on disk
    pc,                \* position inside the transform of one file
    run,               \* 1: first run on the file, 2: the run on its own output
    original_content,  \* the text that was read
    content,           \* the text being rebuilt
    lines,             \* content.split('\n')
    out,               \* new_lines / cleaned_lines
    stmts,             \* the console statements the line loop met
    needs_logger,      \* cleanup_logs: a console.log was replaced
    has_logger,        \* cleanup_logs: the logger import was there already
    ret,               \* the transform's return value ("none" until it returns)
    nwrites,           \* number of times the file was written in this run
    pre_collapse,      \* cleanup_logs: the text handed to the blank-line clean-up
    files,             \* main: the discovered files, each [text, fail]
    idx,               \* main: index of the next file of the loop
    attempted,         \* main: the files handed to the transform, in order
    results,           \* main: what each call returned ("raised" when it raised)
    errors,            \* main: number of "Error processing" lines printed
    mpc                \* main: "loop", "summary" or "aborted"

vars == <<script, dry_run, disk, pc, run, original_content, content, lines, out,
          stmts, needs_logger, has_logger, ret, nwrites, pre_collapse,
          files, idx, attempted, results, errors, mpc>>

fileVars == <<script, dry_run, disk, pc, run, original_content, content, lines,
              out, stmts, needs_logger, has_logger, ret, nwrites, pre_collapse>>

mainVars == <<files, idx, attempted, results, errors, mpc>>

----------------------------------------------------------------------------
(* Tokens *)

NL == "\n"
SP == " "
EM == "<emoji>"
CL == "console.log"
CW == "console.warn"
CE == "console.error"
LD == "logger.debug"
LOGGER_PATH == "@/lib/utils/logger"
REMOVE_MARK == "__REMOVE__"

IsQuote(t) == t \in {"'", "\""}
IsSpace(t) == t \in {SP, NL, "\t"}
IsConsole(t) == t \in {CL, CE, CW}

DEBUG_KEYWORDS == {"DEBUG", "debug", "Testing", "TEST", "temp", "TEMP", "TODO"}

\* re.IGNORECASE on the words of the verbose patterns
LowerCase(t) ==
    CASE t = "Rendering" -> "rendering"
      [] t = "Component mounted" -> "component mounted"
      [] t = "State updated" -> "state updated"
      [] t = "Props:" -> "props:"
      [] t = "Data:" -> "data:"
      [] OTHER -> t

verbose_patterns ==
    {"rendering", "component mounted", "state updated", "props:", "data:"}

----------------------------------------------------------------------------
(* str helpers *)

Has(s, t) == \E k \in 1..Len(s) : s[k] = t

RECURSIVE split(_)
\* content.split('\n'): always at least one line
split(s) ==
    IF \A k \in 1..Len(s) : s[k] # NL
    THEN <<s>>
    ELSE LET p == CHOOSE k \in 1..Len(s) :
                      s[k] = NL /\ \A m \in 1..(k - 1) : s[m] # NL
         IN  <<SubSeq(s, 1, p - 1)>> \o split(SubSeq(s, p + 1, Len(s)))

RECURSIVE join(_)
\* '\n'.join(ls): the empty list gives the empty text
join(ls) ==
    IF Len(ls) = 0 THEN <<>>
    ELSE IF Len(ls) = 1 THEN ls[1]
    ELSE ls[1] \o <<NL>> \o join(Tail(ls))

RECURSIVE lstrip(_)
lstrip(s) == IF Len(s) > 0 /\ IsSpace(s[1]) THEN lstrip(Tail(s)) ELSE s

RECURSIVE rstrip(_)
rstrip(s) ==
    IF Len(s) > 0 /\ IsSpace(s[Len(s)]) THEN rstrip(SubSeq(s, 1, Len(s) - 1)) ELSE s

strip(s) == lstrip(rstrip(s))

\* line.replace('console.log', 'logger.debug')
replace_console_log(line) ==
    [k \in 1..Len(line) |-> IF line[k] = CL THEN LD ELSE line[k]]

\* offset (0-based, as a slice bound) of the start of line k of ls in join(ls)
RECURSIVE LineStart(_, _)
LineStart(ls, k) == IF k = 1 THEN 0 ELSE LineStart(ls, k - 1) + Len(ls[k - 1]) + 1

----------------------------------------------------------------------------
(* scripts/cleanup_logs.py *)

\* EMOJI_PATTERN: console\.log\([^)]*[emoji][^)]*\)
EMOJI_PATTERN_search(s) ==
    \E a \in 1..Len(s) :
        /\ s[a] = CL
        /\ a + 1 <= Len(s) /\ s[a + 1] = "("
        /\ \E e \in (a + 2)..Len(s) :
               /\ s[e] = EM
               /\ \A m \in (a + 2)..(e - 1) : s[m] # ")"
               /\ \E c \in (e + 1)..Len(s) : s[c] = ")"

\* console\.log\(['"][\s-]+['"]\)
separator_search(s) ==
    \E a \in 1..Len(s) :
        /\ s[a] = CL
        /\ a + 1 <= Len(s) /\ s[a + 1] = "("
        /\ a + 2 <= Len(s) /\ IsQuote(s[a + 2])
        /\ \E q \in (a + 4)..Len(s) :
               /\ \A m \in (a + 3)..(q - 1) : IsSpace(s[m]) \/ s[m] = "-"
               /\ IsQuote(s[q])
               /\ q + 1 <= Len(s) /\ s[q + 1] = ")"

should_remove_log(s) ==
    \/ EMOJI_PATTERN_search(s)
    \/ \E k \in 1..(Len(s) - 1) : IsQuote(s[k]) /\ s[k + 1] \in DEBUG_KEYWORDS
    \/ separator_search(s)
    \/ \E k \in 1..Len(s) : LowerCase(s[k]) \in verbose_patterns

get_logger_context == "stem"

\* "from '@/lib/utils/logger'" in content or 'from "@/lib/utils/logger"' in content
has_logger_import(s) ==
    \E k \in 1..(Len(s) - 4) :
        /\ s[k] = "from" /\ s[k + 1] = SP
        /\ IsQuote(s[k + 2]) /\ s[k + 3] = LOGGER_PATH /\ s[k + 4] = s[k + 2]


\* the inserted lines (fixed literal forms)
logger_import ==
    <<"import", SP, "{", SP, "createLogger", SP, "}", SP, "from", SP,
      "'", LOGGER_PATH, "'", ";">>

logger_instance ==
    <<"const", SP, "logger", SP, "=", SP, "createLogger", "(",
      "'", get_logger_context, "'", ")", ";">>

\* ^import .* from ['"].*['"];?$  (one line: "." does not match "\n")
import_pattern(line) ==
    /\ Len(line) >= 2 /\ line[1] = "import" /\ line[2] = SP
    /\ \E k \in 3..(Len(line) - 4) :
           /\ line[k] = SP /\ line[k + 1] = "from" /\ line[k + 2] = SP
           /\ IsQuote(line[k + 3])
           /\ \E q \in (k + 4)..Len(line) :
                  /\ IsQuote(line[q])
                  /\ \/ q = Len(line)
                     \/ q + 1 = Len(line) /\ line[q + 1] = ";"

\* ^(export )?(const|function|class)
first_code_pattern(line) ==
    \/ Len(line) >= 1 /\ line[1] \in {"const", "function", "class"}
    \/ /\ Len(line) >= 3 /\ line[1] = "export" /\ line[2] = SP
       /\ line[3] \in {"const", "function", "class"}

\* content[:p] + ins + content[p:]
InsertAt(s, p, ins) == SubSeq(s, 1, p) \o ins \o SubSeq(s, p + 1, Len(s))

\* one pass of the while loop body of process_file, at line st.i (1-based)
process_line(ls, st) ==
    LET line == ls[st.i]
    IN  IF Has(line, CL)
        THEN LET multi == Has(line, "(") /\ ~Has(line, ")")
                 closers == {j \in (st.i + 1)..Len(ls) : Has(ls[j], ")")}
                 j == IF closers = {} THEN Len(ls) + 1
                      ELSE CHOOSE c \in closers : \A d \in closers : c <= d
                 last == IF ~multi THEN st.i ELSE IF j <= Len(ls) THEN j ELSE Len(ls)
                 full_statement == join(SubSeq(ls, st.i, last))
                 remove == should_remove_log(full_statement)
             IN  [i |-> (IF multi THEN j ELSE st.i) + 1,
                  new_lines |-> IF remove THEN st.new_lines
                                ELSE Append(st.new_lines, replace_console_log(line)),
                  stmts |-> Append(st.stmts,
                                   [first |-> st.i, multi |-> multi,
                                    kind |-> IF remove THEN "REMOVE" ELSE "REPLACE"]),
                  needs_logger |-> st.needs_logger \/ ~remove,
                  logs_replaced |-> st.logs_replaced + (IF remove THEN 0 ELSE 1),
                  logs_removed |-> st.logs_removed + (IF remove THEN 1 ELSE 0)]
        ELSE [st EXCEPT !.i = st.i + 1, !.new_lines = Append(st.new_lines, line)]

RECURSIVE process_lines(_, _)
\* while i < len(lines): ...
process_lines(ls, st) ==
    IF st.i > Len(ls) THEN st ELSE process_lines(ls, process_line(ls, st))

loop_start ==
    [i |-> 1, new_lines |-> <<>>, stmts |-> <<>>, needs_logger |-> FALSE,
     logs_replaced |-> 0, logs_removed |-> 0]

\* add_logger with the import always put first, whatever imports there are
add_logger_import_first(s) ==
    LET with_import == logger_import \o <<NL, NL>> \o s
        ls2 == split(with_import)
        codes == {k \in 1..Len(ls2) : first_code_pattern(ls2[k])}
    IN  IF codes # {}
        THEN LET first_code == CHOOSE k \in codes : \A m \in codes : k <= m
             IN  InsertAt(with_import, LineStart(ls2, first_code),
                          <<NL>> \o logger_instance \o <<NL>>)
        ELSE with_import

\* "Add logger import if needed": the import, then the logger instance
add_logger(s) ==
    LET ls == split(s)
        imports == {k \in 1..Len(ls) : import_pattern(ls[k])}
        with_import ==
            IF imports # {}
            THEN LET last_import == CHOOSE k \in imports : \A m \in imports : m <= k
                     insertion_point == LineStart(ls, last_import) + Len(ls[last_import])
                 IN  InsertAt(s, insertion_point, <<NL>> \o logger_import)
            ELSE logger_import \o <<NL, NL>> \o s
        ls2 == split(with_import)
        codes == {k \in 1..Len(ls2) : first_code_pattern(ls2[k])}
    IN  IF codes # {}
        THEN LET first_code == CHOOSE k \in codes : \A m \in codes : k <= m
             IN  InsertAt(with_import, LineStart(ls2, first_code),
                          <<NL>> \o logger_instance \o <<NL>>)
        ELSE with_import

RunOfNL(s) ==
    IF \A k \in 1..Len(s) : s[k] = NL THEN Len(s)
    ELSE (CHOOSE k \in 1..Len(s) : s[k] # NL /\ \A m \in 1..(k - 1) : s[m] = NL) - 1

RECURSIVE collapse_four_newlines(_)
\* the clean-up with one more "\n" in the pattern: \n\n\n\n+
collapse_four_newlines(s) ==
    IF Len(s) = 0 THEN <<>>
    ELSE IF s[1] # NL THEN <<s[1]>> \o collapse_four_newlines(Tail(s))
    ELSE LET r == RunOfNL(s)
         IN  (IF r >= 4 THEN <<NL, NL>> ELSE SubSeq(s, 1, r))
                 \o collapse_four_newlines(SubSeq(s, r + 1, Len(s)))

RECURSIVE collapse_blank_lines(_)
\* re.sub(r'\n\n\n+', '\n\n', content)
collapse_blank_lines(s) ==
    IF Len(s) = 0 THEN <<>>
    ELSE IF s[1] # NL THEN <<s[1]>> \o collapse_blank_lines(Tail(s))
    ELSE LET r == RunOfNL(s)
         IN  (IF r >= 3 THEN <<NL, NL>> ELSE SubSeq(s, 1, r))
                 \o collapse_blank_lines(SubSeq(s, r + 1, Len(s)))

\* the write test without the dry-run flag
should_write_despite_dry_run(dry, new, original) == new # original

\* "if not dry_run and content != original_content"
should_write(dry, new, original) == ~dry /\ new # original

----------------------------------------------------------------------------
(* process_file, stage by stage *)

PF_Read ==
    /\ script = "cleanup" /\ pc = "start"
    /\ content' = disk
    /\ original_content' = disk
    /\ lines' = split(disk)
    /\ IF ~Has(disk, CL)
       THEN /\ ret' = "False" /\ pc' = "done"
            /\ UNCHANGED has_logger
       ELSE /\ has_logger' = has_logger_import(disk)
            /\ pc' = "loop"
            /\ UNCHANGED ret
    /\ UNCHANGED <<script, dry_run, disk, run, out, stmts, needs_logger, nwrites>>
    /\ UNCHANGED <<pre_collapse>>
    /\ UNCHANGED mainVars

PF_Loop ==
    /\ script = "cleanup" /\ pc = "loop"
    /\ LET st == process_lines(lines, loop_start)
       IN  /\ out' = st.new_lines
           /\ stmts' = st.stmts
           /\ needs_logger' = st.needs_logger
           /\ content' = join(st.new_lines)
    /\ pc' = "logger"
    /\ UNCHANGED <<script, dry_run, disk, run, original_content, lines, has_logger,
                   ret, nwrites>>
    /\ UNCHANGED <<pre_collapse>>
    /\ UNCHANGED mainVars

PF_AddLogger ==
    /\ script = "cleanup" /\ pc = "logger"
    /\ content' = IF needs_logger /\ ~has_logger THEN add_logger(content) ELSE content
    /\ pc' = "collapse"
    /\ UNCHANGED <<script, dry_run, disk, run, original_content, lines, out, stmts,
                   needs_logger, has_logger, ret, nwrites>>
    /\ UNCHANGED <<pre_collapse>>
    /\ UNCHANGED mainVars

PF_Collapse ==
    /\ script = "cleanup" /\ pc = "collapse"
    /\ pre_collapse' = content
    /\ content' = collapse_blank_lines(content)
    /\ pc' = "write"
    /\ UNCHANGED <<script, dry_run, disk, run, original_content, lines, out, stmts,
                   needs_logger, has_logger, ret, nwrites>>
    /\ UNCHANGED mainVars

PF_Write ==
    /\ script = "cleanup" /\ pc = "write"
    /\ IF should_write(dry_run, content, original_content)
       THEN disk' = content /\ nwrites' = nwrites + 1 /\ ret' = "True"
       ELSE UNCHANGED <<disk, nwrites>> /\ ret' = "False"
    /\ pc' = "done"
    /\ UNCHANGED <<script, dry_run, run, original_content, content, lines, out, stmts,
                   needs_logger, has_logger>>
    /\ UNCHANGED <<pre_collapse>>
    /\ UNCHANGED mainVars

----------------------------------------------------------------------------
(* clean_all_emoji_logs.py *)

\* re.search(r'console\.(log|error|warn)\(', line)
console_call_search(line) ==
    \E k \in 1..(Len(line) - 1) : IsConsole(line[k]) /\ line[k + 1] = "("

\* line.rstrip().endswith(');') or line.rstrip().endswith(')')
ends_with_close(line) ==
    LET t == rstrip(line)
    IN  \/ Len(t) >= 1 /\ t[Len(t)] = ")"
        \/ Len(t) >= 2 /\ t[Len(t) - 1] = ")" /\ t[Len(t)] = ";"

\* one pass of the for loop body of clean_file; ls is the list as mutated so far
clean_all_line(st) ==
    LET ls == st.lines
        line == ls[st.i]
    IN  IF st.skip_next
        THEN [st EXCEPT !.i = st.i + 1, !.skip_next = FALSE]
        ELSE IF console_call_search(line) /\ Has(line, EM)
        THEN IF ~ends_with_close(line)
             THEN LET closers == {j \in (st.i + 1)..Len(ls) : Has(ls[j], ")")}
                  IN  IF closers = {}
                      THEN [st EXCEPT !.i = st.i + 1,
                                      !.stmts = Append(st.stmts,
                                          [first |-> st.i, multi |-> TRUE,
                                           kind |-> "REMOVE"])]
                      ELSE LET j == CHOOSE c \in closers : \A d \in closers : c <= d
                           IN  [st EXCEPT
                                  !.i = st.i + 1,
                                  !.lines = [k \in 1..Len(ls) |->
                                                IF st.i <= k /\ k <= j
                                                THEN <<REMOVE_MARK>> ELSE ls[k]],
                                  !.stmts = Append(st.stmts,
                                      [first |-> st.i, multi |-> TRUE,
                                       kind |-> "REMOVE"])]
             ELSE [st EXCEPT !.i = st.i + 1,
                             !.stmts = Append(st.stmts,
                                 [first |-> st.i, multi |-> FALSE, kind |-> "REMOVE"])]
        ELSE [st EXCEPT !.i = st.i + 1,
                        !.cleaned_lines = Append(st.cleaned_lines, line)]

RECURSIVE clean_all_lines(_)
\* for i, line in enumerate(lines): ...
clean_all_lines(st) ==
    IF st.i > Len(st.lines) THEN st ELSE clean_all_lines(clean_all_line(st))

clean_all_start(ls) ==
    [i |-> 1, lines |-> ls, cleaned_lines |-> <<>>, skip_next |-> FALSE, stmts |-> <<>>]

\* [line for line in cleaned_lines if line != '__REMOVE__']
remove_marked(ls) == SelectSeq(ls, LAMBDA l : l # <<REMOVE_MARK>>)

CA_Read ==
    /\ script = "all" /\ pc = "start"
    /\ content' = disk
    /\ original_content' = disk
    /\ lines' = split(disk)
    /\ pc' = "loop"
    /\ UNCHANGED <<script, dry_run, disk, run, out, stmts, needs_logger, has_logger,
                   ret, nwrites>>
    /\ UNCHANGED <<pre_collapse>>
    /\ UNCHANGED mainVars

CA_Loop ==
    /\ script = "all" /\ pc = "loop"
    /\ LET st == clean_all_lines(clean_all_start(lines))
       IN  /\ out' = remove_marked(st.cleaned_lines)
           /\ stmts' = st.stmts
           /\ content' = join(remove_marked(st.cleaned_lines))
    /\ pc' = "write"
    /\ UNCHANGED <<script, dry_run, disk, run, original_content, lines, needs_logger,
                   has_logger, ret, nwrites>>
    /\ UNCHANGED <<pre_collapse>>
    /\ UNCHANGED mainVars

CA_Write ==
    /\ script = "all" /\ pc = "write"
    /\ IF should_write(FALSE, content, original_content)
       THEN disk' = content /\ nwrites' = nwrites + 1 /\ ret' = "True"
       ELSE UNCHANGED <<disk, nwrites>> /\ ret' = "False"
    /\ pc' = "done"
    /\ UNCHANGED <<script, dry_run, run, original_content, content, lines, out, stmts,
                   needs_logger, has_logger>>
    /\ UNCHANGED <<pre_collapse>>
    /\ UNCHANGED mainVars

----------------------------------------------------------------------------
(* clean_emoji_logs.py *)

\* first position >= p that holds no whitespace (Len(s) + 1 when there is none)
SkipSpace(s, p) ==
    LET stop == {k \in p..Len(s) : ~IsSpace(s[k])}
    IN  IF stop = {} THEN Len(s) + 1 ELSE CHOOSE k \in stop : \A m \in stop : k <= m

\* first position >= p that holds ")" (0 when there is none)
FirstClose(s, p) ==
    LET cl == {k \in p..Len(s) : s[k] = ")"}
    IN  IF cl = {} THEN 0 ELSE CHOOSE k \in cl : \A m \in cl : k <= m

\* console\.(log|error|warn)\(['"][emoji]  at position q
emoji_call_at(s, q) ==
    /\ q + 3 <= Len(s)
    /\ IsConsole(s[q]) /\ s[q + 1] = "(" /\ IsQuote(s[q + 2]) /\ s[q + 3] = EM

\* STANDALONE_PATTERN matched at p: the position just after the match, 0 for no
\* match.  ^\s*console\.(log|error|warn)\(['"][emoji][^)]*\);\s*$  (re.MULTILINE;
\* \s and [^)] match "\n" too; the trailing \s* is greedy and backs off to a "$")
standalone_end(s, p) ==
    LET q == SkipSpace(s, p)
        r == IF emoji_call_at(s, q) THEN FirstClose(s, q + 4) ELSE 0
        w == SkipSpace(s, r + 2)
        ends == {e \in (r + 2)..(w - 1) : s[e] = NL}
    IN  IF ~(p = 1 \/ s[p - 1] = NL) THEN 0
        ELSE IF r = 0 THEN 0
        ELSE IF ~(r + 1 <= Len(s) /\ s[r + 1] = ";") THEN 0
        ELSE IF w = Len(s) + 1 THEN w
        ELSE IF ends = {} THEN 0
        ELSE CHOOSE e \in ends : \A m \in ends : m <= e

RECURSIVE standalone_sub(_, _)
\* STANDALONE_PATTERN.sub('', content), scanning from position p
standalone_sub(s, p) ==
    IF p > Len(s) THEN <<>>
    ELSE IF standalone_end(s, p) # 0 THEN standalone_sub(s, standalone_end(s, p))
    ELSE <<s[p]>> \o standalone_sub(s, p + 1)

\* INLINE_PATTERN.search(line)
inline_search(line) ==
    \E q \in 1..Len(line) : emoji_call_at(line, q) /\ FirstClose(line, q + 4) # 0

\* re.match(r'^\s*console\.(log|error|warn)\([\'"]' + EMOJI_PATTERN, line)
starts_with_emoji_call(line) == emoji_call_at(line, SkipSpace(line, 1))

RECURSIVE console_sub(_, _)
\* re.sub(r'console\.(log|error|warn)\([^)]*\);?\s*', '', line), from position p
console_sub(s, p) ==
    IF p > Len(s) THEN <<>>
    ELSE IF /\ IsConsole(s[p]) /\ p + 1 <= Len(s) /\ s[p + 1] = "("
            /\ FirstClose(s, p + 2) # 0
         THEN LET r == FirstClose(s, p + 2)
                  e == IF r + 1 <= Len(s) /\ s[r + 1] = ";" THEN r + 2 ELSE r + 1
              IN  console_sub(s, SkipSpace(s, e))
         ELSE <<s[p]>> \o console_sub(s, p + 1)

trivial_syntax == {<<>>, <<"}">>, <<"{">>, <<"}", ",">>, <<"{", ",">>}

\* the body of "for line in lines": TRUE when the line is appended to cleaned_lines
keeps_line(line) ==
    IF inline_search(line)
    THEN IF starts_with_emoji_call(line)
         THEN IF strip(console_sub(line, 1)) \in trivial_syntax
              THEN FALSE    \* continue
              ELSE FALSE    \* falls out of the if: nothing is appended
         ELSE TRUE
    ELSE TRUE

clean_emoji_lines(ls) == SelectSeq(ls, keeps_line)

CEm_Read ==
    /\ script = "emoji" /\ pc = "start"
    /\ content' = disk
    /\ original_content' = disk
    /\ pc' = "standalone"
    /\ UNCHANGED <<script, dry_run, disk, run, lines, out, stmts, needs_logger,
                   has_logger, ret, nwrites>>
    /\ UNCHANGED <<pre_collapse>>
    /\ UNCHANGED mainVars

CEm_Standalone ==
    /\ script = "emoji" /\ pc = "standalone"
    /\ content' = standalone_sub(content, 1)
    /\ lines' = split(standalone_sub(content, 1))
    /\ pc' = "loop"
    /\ UNCHANGED <<script, dry_run, disk, run, original_content, out, stmts,
                   needs_logger, has_logger, ret, nwrites>>
    /\ UNCHANGED <<pre_collapse>>
    /\ UNCHANGED mainVars

CEm_Loop ==
    /\ script = "emoji" /\ pc = "loop"
    /\ out' = clean_emoji_lines(lines)
    /\ content' = join(clean_emoji_lines(lines))
    /\ pc' = "write"
    /\ UNCHANGED <<script, dry_run, disk, run, original_content, lines, stmts,
                   needs_logger, has_logger, ret, nwrites>>
    /\ UNCHANGED <<pre_collapse>>
    /\ UNCHANGED mainVars

CEm_Write ==
    /\ script = "emoji" /\ pc = "write"
    /\ IF should_write(FALSE, content, original_content)
       THEN disk' = content /\ nwrites' = nwrites + 1 /\ ret' = "True"
       ELSE UNCHANGED <<disk, nwrites>> /\ ret' = "False"
    /\ pc' = "done"
    /\ UNCHANGED <<script, dry_run, run, original_content, content, lines, out, stmts,
                   needs_logger, has_logger>>
    /\ UNCHANGED <<pre_collapse>>
    /\ UNCHANGED mainVars

----------------------------------------------------------------------------
(* The whole transform of one file, as main() calls it *)

\* process_file(file_path, dry_run): the text it computes and whether it writes
process_file(text, dry) ==
    IF ~Has(text, CL)
    THEN [text |-> text, writes |-> FALSE]
    ELSE LET st == process_lines(split(text), loop_start)
             joined == join(st.new_lines)
             with_logger == IF st.needs_logger /\ ~has_logger_import(text)
                            THEN add_logger(joined) ELSE joined
             new == collapse_blank_lines(with_logger)
         IN  [text |-> new, writes |-> should_write(dry, new, text)]

\* clean_all_emoji_logs.clean_file(filepath)
clean_all_file(text) ==
    LET st == clean_all_lines(clean_all_start(split(text)))
        new == join(remove_marked(st.cleaned_lines))
    IN  [text |-> new, writes |-> should_write(FALSE, new, text)]

\* clean_emoji_logs.clean_file(filepath)
clean_emoji_file(text) ==
    LET new == join(clean_emoji_lines(split(standalone_sub(text, 1))))
    IN  [text |-> new, writes |-> should_write(FALSE, new, text)]

transform(sc, text, dry) ==
    CASE sc = "cleanup" -> process_file(text, dry)
      [] sc = "all" -> clean_all_file(text)
      [] sc = "emoji" -> clean_emoji_file(text)

----------------------------------------------------------------------------
(* Input files *)

MaxLines == 3
MaxFiles == 2
MaxBlankLines == 6

Call(fn, args) == <<fn, "(">> \o args \o <<")", ";">>
Str(w) == <<"'", w, "'">>

CleanupMenu ==
    { Call(CL, Str("x")),                          \* console.log('x');
      Call(CL, Str(EM)),                           \* console.log('<emoji>');
      <<CL, "(">>,                                 \* console.log(
      <<CL, "(">> \o Str("DEBUG") \o <<",">>,      \* console.log('DEBUG',
      <<")", ";">>,                                \* );
      Call(CW, Str("x")),                          \* console.warn('x');
      Call(CL, Str("-")),                          \* console.log('-');
      Call(CL, Str("Rendering")),                  \* console.log('Rendering');
      <<>>,                                        \* blank line
      <<"import", SP, "a", SP, "from", SP>> \o Str("b") \o <<";">>,
      <<"const", SP, "y", ";">>,
      logger_import }

AllMenu ==
    { Call(CL, Str(EM)),                           \* console.log('<emoji>');
      Call(CL, Str("x")),                          \* console.log('x');
      <<CE, "(">> \o Str(EM) \o <<",">>,           \* console.error('<emoji>',
      Call(CW, Str(EM)) \o <<SP, "x">>,            \* console.warn('<emoji>'); x
      <<"x", ";">>,
      <<")", ";">>,
      <<REMOVE_MARK>> }

EmojiMenu ==
    { Call(CL, Str(EM)),                           \* console.log('<emoji>');
      <<CL, "(">> \o Str(EM) \o <<")">>,           \* console.log('<emoji>')
      <<CL, "(">> \o Str(EM) \o <<")", SP, "}">>,  \* console.log('<emoji>') }
      Call(CW, Str(EM)) \o <<SP, "x", ";">>,       \* console.warn('<emoji>'); x;
      <<"x", ";", SP>> \o Call(CE, Str(EM)),       \* x; console.error('<emoji>');
      <<CL, "(">> \o Str(EM) \o <<",">>,           \* console.log('<emoji>',
      <<")", ";">>,
      <<"x", ";">>,
      <<>> }

Menu(sc) ==
    CASE sc = "cleanup" -> CleanupMenu
      [] sc = "all" -> AllMenu
      [] sc = "emoji" -> EmojiMenu

Scripts == {"cleanup", "all", "emoji"}

SeqsUpTo(S, n) == UNION {[1..m -> S] : m \in 1..n}

Texts(sc) == {join(ls) : ls \in SeqsUpTo(Menu(sc), MaxLines)}

DryRuns(sc) == IF sc = "cleanup" THEN BOOLEAN ELSE {FALSE}

----------------------------------------------------------------------------
(* One file, stage by stage, then once more on its own output *)

NoMain ==
    /\ files = <<>> /\ idx = 0 /\ attempted = <<>> /\ results = <<>>
    /\ errors = 0 /\ mpc = "none"

Init ==
    /\ script \in Scripts
    /\ dry_run \in DryRuns(script)
    /\ disk \in Texts(script)
    /\ pc = "start" /\ run = 1
    /\ original_content = <<>> /\ content = <<>> /\ lines = <<>> /\ out = <<>>
    /\ stmts = <<>> /\ needs_logger = FALSE /\ has_logger = FALSE
    /\ ret = "none" /\ nwrites = 0 /\ pre_collapse = <<>>
    /\ NoMain

Rerun ==
    /\ pc = "done" /\ run = 1
    /\ run' = 2 /\ pc' = "start"
    /\ original_content' = <<>> /\ content' = <<>> /\ lines' = <<>> /\ out' = <<>>
    /\ stmts' = <<>> /\ needs_logger' = FALSE /\ has_logger' = FALSE
    /\ ret' = "none" /\ nwrites' = 0 /\ pre_collapse' = <<>>
    /\ UNCHANGED <<script, dry_run, disk>>
    /\ UNCHANGED mainVars

Next ==
    \/ PF_Read \/ PF_Loop \/ PF_AddLogger \/ PF_Collapse \/ PF_Write
    \/ CA_Read \/ CA_Loop \/ CA_Write
    \/ CEm_Read \/ CEm_Standalone \/ CEm_Loop \/ CEm_Write
    \/ Rerun

Spec == Init /\ [][Next]_vars

----------------------------------------------------------------------------
(* The blank-line clean-up of process_file on its own *)

BlankTexts == {join(ls) : ls \in SeqsUpTo({<<>>, <<"x">>}, MaxBlankLines)}

InitCollapse ==
    /\ script = "cleanup" /\ dry_run = FALSE
    /\ content \in BlankTexts
    /\ pc = "collapse" /\ run = 1
    /\ disk = <<>> /\ original_content = <<>> /\ lines = <<>> /\ out = <<>>
    /\ stmts = <<>> /\ needs_logger = FALSE /\ has_logger = FALSE
    /\ ret = "none" /\ nwrites = 0 /\ pre_collapse = <<>>
    /\ NoMain

SpecCollapse == InitCollapse /\ [][PF_Collapse]_vars

----------------------------------------------------------------------------
(* main(): the loop over the discovered files *)

FailModes == {"none", "read", "write"}

MainTexts == {Call(CL, Str("x")), Call(CL, Str(EM)), <<"x", ";">>}

\* what the call on each text of MainTexts computes
call == [sc \in Scripts |-> [d \in BOOLEAN |-> [t \in MainTexts |-> transform(sc, t, d)]]]

FileChoices == {[orig |-> t, text |-> t, fail |-> f] : t \in MainTexts, f \in FailModes}

\* an exception that nothing catches ends the run
after_exception_aborts(sc) == [mpc |-> "aborted", result |-> "raised"]

\* what follows an exception raised while a file is processed: cleanup_logs.main
\* catches it and goes on; the clean_file of the two emoji scripts catches it
\* itself and returns False
after_exception(sc) ==
    [mpc |-> "loop", result |-> IF sc = "cleanup" THEN "raised" ELSE "False"]

InitMain ==
    /\ script \in Scripts
    /\ dry_run \in DryRuns(script)
    /\ files \in SeqsUpTo(FileChoices, MaxFiles)
    /\ idx = 1 /\ attempted = <<>> /\ results = <<>> /\ errors = 0 /\ mpc = "loop"
    /\ pc = "none" /\ run = 1
    /\ disk = <<>> /\ original_content = <<>> /\ content = <<>> /\ lines = <<>>
    /\ out = <<>> /\ stmts = <<>> /\ needs_logger = FALSE /\ has_logger = FALSE
    /\ ret = "none" /\ nwrites = 0 /\ pre_collapse = <<>>

\* the call returns: the file is rewritten when the transform writes
Main_Call ==
    /\ mpc = "loop" /\ idx <= Len(files)
    /\ LET f == files[idx]
           r == call[script][dry_run][f.text]
       IN  /\ f.fail = "none" \/ (f.fail = "write" /\ ~r.writes)
           /\ files' = [files EXCEPT ![idx].text = IF r.writes THEN r.text ELSE @]
           /\ results' = Append(results, IF r.writes THEN "True" ELSE "False")
    /\ attempted' = Append(attempted, idx)
    /\ idx' = idx + 1
    /\ UNCHANGED <<errors, mpc>>
    /\ UNCHANGED fileVars

\* open(..., 'r') or f.read() raises (unreadable file, decode failure)
Main_ReadError ==
    /\ mpc = "loop" /\ idx <= Len(files)
    /\ files[idx].fail = "read"
    /\ attempted' = Append(attempted, idx)
    /\ results' = Append(results, after_exception(script).result)
    /\ mpc' = after_exception(script).mpc
    /\ errors' = errors + 1
    /\ idx' = idx + 1
    /\ UNCHANGED files
    /\ UNCHANGED fileVars

\* open(..., 'w') or f.write() raises: the file is as it was, or truncated
Main_WriteError ==
    /\ mpc = "loop" /\ idx <= Len(files)
    /\ files[idx].fail = "write"
    /\ call[script][dry_run][files[idx].text].writes
    /\ \E left \in {files[idx].text, <<>>} :
           files' = [files EXCEPT ![idx].text = left]
    /\ attempted' = Append(attempted, idx)
    /\ results' = Append(results, after_exception(script).result)
    /\ mpc' = after_exception(script).mpc
    /\ errors' = errors + 1
    /\ idx' = idx + 1
    /\ UNCHANGED fileVars

\* the loop is over: the summary is printed
Main_Summary ==
    /\ mpc = "loop" /\ idx > Len(files)
    /\ mpc' = "summary"
    /\ UNCHANGED <<files, idx, attempted, results, errors>>
    /\ UNCHANGED fileVars

NextMain == Main_Call \/ Main_ReadError \/ Main_WriteError \/ Main_Summary

SpecMain == InitMain /\ [][NextMain]_vars

\* a sequential program: the loop runs on while a step is left to take
FairSpecMain == SpecMain /\ WF_vars(NextMain)

----------------------------------------------------------------------------
(* Properties *)

Range(f) == {f[k] : k \in DOMAIN f}

\* sub occurs in ls as a run of consecutive elements
ContainsRun(ls, sub) ==
    \E o \in 0..(Len(ls) - Len(sub)) : \A k \in 1..Len(sub) : ls[o + k] = sub[k]

\* last line of the statement that starts at line i: i itself for a one-line
\* call, else the first later line with ")", else the last line of the file
StatementLast(ls, i, multi) ==
    IF ~multi THEN i
    ELSE LET closers == {j \in (i + 1)..Len(ls) : Has(ls[j], ")")}
         IN  IF closers = {} THEN Len(ls)
             ELSE CHOOSE c \in closers : \A d \in closers : c <= d

\* the statement that starts at line i has its closing line in the file
Closed(ls, i, multi) == multi => \E j \in (i + 1)..Len(ls) : Has(ls[j], ")")

\* ls without the lines whose index is in drop
RECURSIVE WithoutLines(_, _, _)
WithoutLines(ls, drop, k) ==
    IF k > Len(ls) THEN <<>>
    ELSE (IF k \in drop THEN <<>> ELSE <<ls[k]>>) \o WithoutLines(ls, drop, k + 1)

RemovedLines ==
    UNION {stmts[n].first..StatementLast(lines, stmts[n].first, stmts[n].multi) :
               n \in {m \in 1..Len(stmts) : stmts[m].kind = "REMOVE"}}

\* C1: process_file keeps every console.log statement it does not remove whole:
\* the first line with console.log renamed to logger.debug, and every
\* continuation line up to the closing one, unchanged and in order
\* (statements on one line, or with a later line that holds ")").
C1_ReplaceKeepsStatement ==
    (script = "cleanup" /\ pc = "logger") =>
        \A n \in 1..Len(stmts) :
            (stmts[n].kind = "REPLACE" /\ Closed(lines, stmts[n].first, stmts[n].multi)) =>
                LET i == stmts[n].first
                    j == StatementLast(lines, i, stmts[n].multi)
                IN  ContainsRun(out, <<replace_console_log(lines[i])>>
                                         \o SubSeq(lines, i + 1, j))

\* the same for one-line statements only (holds)
C1_OneLineReplaceKept ==
    (script = "cleanup" /\ pc = "logger") =>
        \A n \in 1..Len(stmts) :
            (stmts[n].kind = "REPLACE" /\ ~stmts[n].multi) =>
                replace_console_log(lines[stmts[n].first]) \in Range(out)

\* C2, clean_all_emoji_logs.clean_file: the lines produced are the input lines
\* without the lines i..j of every removed statement (files that hold no line
\* equal to the removal mark).
C2_CleanAllPart ==
    (script = "all" /\ pc = "write" /\ <<REMOVE_MARK>> \notin Range(lines)) =>
        out = WithoutLines(lines, RemovedLines, 1)

\* C2, cleanup_logs.process_file before the blank-line clean-up (files in which
\* no statement is replaced).
C2_ProcessFilePart ==
    (script = "cleanup" /\ pc = "logger"
        /\ \A n \in 1..Len(stmts) : stmts[n].kind = "REMOVE") =>
        out = WithoutLines(lines, RemovedLines, 1)

\* C2: a removed statement's lines i..j are deleted together and no other
\* line is touched, in clean_all_emoji_logs.clean_file and in process_file.
C2_RemoveDeletesExactlySpan == C2_CleanAllPart /\ C2_ProcessFilePart

\* C3: every input line with a console.warn or console.error call is in the
\* output text of process_file, unchanged.
C3_WarnErrorPreserved ==
    (script = "cleanup" /\ pc = "done" /\ run = 1) =>
        \A k \in 1..Len(lines) :
            (Has(lines[k], CW) \/ Has(lines[k], CE)) => lines[k] \in Range(split(content))

NoConsoleCall(s) == \A k \in 1..Len(s) : ~IsConsole(s[k])

C4_Holds(sc) ==
    (script = sc /\ pc = "done" /\ run = 1 /\ NoConsoleCall(original_content)) =>
        /\ content = original_content
        /\ disk = original_content
        /\ nwrites = 0
        /\ ret = "False"

\* C4: for a file without any console.log/error/warn, each of the three
\* transforms computes the input text again, writes nothing and returns False.
C4_NoCallNoChange == \A sc \in Scripts : C4_Holds(sc)

C4_ProcessFilePart == C4_Holds("cleanup")

C4_CleanEmojiPart == C4_Holds("emoji")

C5_Holds(sc) ==
    (script = sc /\ pc = "done" /\ run = 2) =>
        /\ disk = original_content
        /\ nwrites = 0
        /\ ret = "False"

\* C5: each transform, run on its own output, changes nothing and writes nothing.
C5_Idempotent == \A sc \in Scripts : C5_Holds(sc)

C5_ProcessFilePart == C5_Holds("cleanup")

C5_CleanAllPart == C5_Holds("all")

\* C6: the file is written only when the rebuilt text differs from the text
\* read and dry-run is off; otherwise it stays as read; the transform returns
\* True exactly when it wrote, and a write puts the whole rebuilt text.
C6_WriteOnlyWhenChanged ==
    (pc = "done") =>
        /\ (dry_run \/ content = original_content) =>
               (disk = original_content /\ nwrites = 0)
        /\ (ret = "True") <=> (nwrites = 1)
        /\ nwrites \in {0, 1}
        /\ nwrites = 1 => disk = content

C6_Witness ==
    /\ pc = "done" /\ script = "cleanup" /\ dry_run
    /\ content # original_content /\ disk = original_content /\ ret = "False"

C6_WitnessWritten == pc = "done" /\ nwrites = 1 /\ disk # original_content

Max(S) == CHOOSE x \in S : \A y \in S : y <= x
Min(S) == CHOOSE x \in S : \A y \in S : x <= y

\* the output text of process_file, line by line
Output == split(content)
ImportAt == {k \in 1..Len(Output) : Output[k] = logger_import}
InstanceAt == {k \in 1..Len(Output) : Output[k] = logger_instance}
OtherImports ==
    {k \in 1..Len(Output) : import_pattern(Output[k]) /\ Output[k] # logger_import}
Declarations ==
    {k \in 1..Len(Output) : first_code_pattern(Output[k]) /\ Output[k] # logger_instance}

\* a console.log was replaced in a file without the logger import
C9_Case ==
    script = "cleanup" /\ pc = "done" /\ run = 1 /\ needs_logger /\ ~has_logger

\* exactly one import line, right after the last import line there was, or first
ImportPlaced ==
    /\ Cardinality(ImportAt) = 1
    /\ \A k \in ImportAt :
           IF OtherImports = {} THEN k = 1 ELSE k = Max(OtherImports) + 1

C9_WitnessNoAnchor == C9_Case /\ Declarations = {} /\ InstanceAt = {}

\* C10: in the line loop of clean_emoji_logs.clean_file a line that starts with
\* an emoji console call is dropped only when nothing but whitespace or trivial
\* syntax is left once the call is deleted; lines with other code are kept.
C10_CodeAfterCallKept ==
    (script = "emoji" /\ pc = "write") =>
        \A k \in 1..Len(lines) :
            (/\ inline_search(lines[k])
             /\ starts_with_emoji_call(lines[k])
             /\ strip(console_sub(lines[k], 1)) \notin trivial_syntax)
                => lines[k] \in Range(out)

\* lines with code before the call are kept (holds)
C10_CodeBeforeCallKept ==
    (script = "emoji" /\ pc = "write") =>
        \A k \in 1..Len(lines) :
            (inline_search(lines[k]) /\ ~starts_with_emoji_call(lines[k]))
                => lines[k] \in Range(out)

----------------------------------------------------------------------------
(* Runs of blank lines *)

\* number of empty lines at the head of ls
RECURSIVE LeadingBlank(_)
LeadingBlank(ls) ==
    IF Len(ls) > 0 /\ ls[1] = <<>> THEN 1 + LeadingBlank(Tail(ls)) ELSE 0

\* ls as runs: a maximal run of n empty lines, or one non-empty line
RECURSIVE Runs(_)
Runs(ls) ==
    IF Len(ls) = 0 THEN <<>>
    ELSE IF ls[1] = <<>>
    THEN <<[blank |-> TRUE, n |-> LeadingBlank(ls), line |-> <<>>]>>
             \o Runs(SubSeq(ls, LeadingBlank(ls) + 1, Len(ls)))
    ELSE <<[blank |-> FALSE, n |-> 1, line |-> ls[1]]>> \o Runs(Tail(ls))

\* C8 as stated: a run of 3 or more blank lines becomes 1, shorter runs stay
\* (texts whose first and last lines are not blank)
C8_RunsOfThreeBecomeOne ==
    (script = "cleanup" /\ pc = "write"
        /\ Head(split(pre_collapse)) # <<>>
        /\ split(pre_collapse)[Len(split(pre_collapse))] # <<>>) =>
        LET R == Runs(split(pre_collapse))
        IN  Runs(split(content)) =
                [m \in DOMAIN R |->
                    IF R[m].blank /\ R[m].n >= 3 THEN [R[m] EXCEPT !.n = 1] ELSE R[m]]

\* C8 amended: 3 or more newlines in a row become 2.  Between two non-blank
\* lines a run of 2 or more blank lines becomes 1 and a single blank line stays;
\* at the start or the end of the text a run of 3 or more becomes 2 and shorter
\* ones stay; a text of 4 or more blank lines and nothing else becomes 3;
\* non-blank lines stay as they are.
C8_RunsOfNewlines ==
    (script = "cleanup" /\ pc = "write") =>
        LET R == Runs(split(pre_collapse))
            after(m) ==
                IF ~R[m].blank THEN R[m]
                ELSE IF Len(R) = 1
                THEN [R[m] EXCEPT !.n = IF @ >= 4 THEN 3 ELSE @]
                ELSE IF m = 1 \/ m = Len(R)
                THEN [R[m] EXCEPT !.n = IF @ >= 3 THEN 2 ELSE @]
                ELSE [R[m] EXCEPT !.n = 1]
        IN  Runs(split(content)) = [m \in DOMAIN R |-> after(m)]

C8_Witness ==
    /\ script = "cleanup" /\ pc = "write"
    /\ \E m \in 2..(Len(Runs(split(pre_collapse))) - 1) :
           /\ Runs(split(pre_collapse))[m].blank
           /\ Runs(split(pre_collapse))[m].n >= 3
           /\ Runs(split(content))[m].n = 1

----------------------------------------------------------------------------
(* main() *)

\* processing file k raises
Fails(k) ==
    \/ files[k].fail = "read"
    \/ files[k].fail = "write" /\ call[script][dry_run][files[k].orig].writes

\* the text file k holds after a run in which nothing fails
NoFailureText(k) ==
    LET r == call[script][dry_run][files[k].orig]
    IN  IF r.writes THEN r.text ELSE files[k].orig

C7_AtSummary ==
    mpc = "summary" =>
        /\ attempted = [k \in 1..Len(files) |-> k]
        /\ \A k \in 1..Len(files) : ~Fails(k) => files[k].text = NoFailureText(k)

\* C7: whatever files fail, every file is attempted once, in order, the
\* others are transformed as in a run without failures, and the run reaches
\* its summary.
C7_EveryFileAttempted == <>(mpc = "summary") /\ [](C7_AtSummary /\ mpc # "aborted")

C7_Witness ==
    /\ mpc = "summary"
    /\ \E k \in 1..Len(files) : \E m \in (k + 1)..Len(files) :
           Fails(k) /\ ~Fails(m) /\ files[m].text # files[m].orig

====
